---- MODULE Spec2Model ----
(***************************************************************************)
(* env_assert: the env_assert! macro of src/lib.rs and the test module     *)
(* that exercises it.                                                      *)
(*                                                                         *)
(* Spec      one thread expanding env_assert! step by step (lookup, match, *)
(*           format, condition, assert) while the process environment may  *)
(*           be changed by set_var / remove_var at any moment.             *)
(* SpecTests the five #[test] functions as concurrent threads over the one *)
(*           process environment.                                          *)
(***************************************************************************)
EXTENDS Integers, Sequences, FiniteSets, TLC

VARIABLES
    env,        \* the process environment's entry for KEY
    pc,         \* position of the calling thread inside env_assert!
    call,       \* the macro's arguments: shape, $cond, $($arg)+
    res,        \* the Result std::env::var(KEY) returned to this call
    todo,       \* statements of the selected match arm still to run
    loc,        \* locals and effects of the call: s, the condition's value,
                \* how often $cond and format! ran, the outcome, the message
    reads,      \* lookups of KEY made by the current call
    calls,      \* calls started so far
    prev,       \* history: lookup result and outcome of the previous call
    envAtRead,  \* history: the environment entry at the call's lookup
    sawTrue,    \* history: KEY was "true" at some moment of the current call
    raced,      \* history: KEY was changed while the current call was running
    tpc,        \* per test thread: index of its next statement
    tres,       \* per test thread: "running", "ok" or "panic"
    tmsg        \* per test thread: panic message

vars == <<env, pc, call, res, todo, loc, reads, calls, prev, envAtRead,
          sawTrue, raced, tpc, tres, tmsg>>
callVars == <<pc, call, res, todo, loc, reads, calls, prev, envAtRead,
              sawTrue, raced>>
testVars == <<tpc, tres, tmsg>>

-----------------------------------------------------------------------------
(* Bounds *)

MaxCalls == 3

-----------------------------------------------------------------------------
(* The environment entry and its lookup *)

TRUE_STR == "true"

Values == {"true", "True", "1", "", "false"}

Unset == [set |-> FALSE, unicode |-> TRUE, val |-> ""]
SetTo(v) == [set |-> TRUE, unicode |-> TRUE, val |-> v]
NotUnicode == [set |-> TRUE, unicode |-> FALSE, val |-> ""]

Entries == {Unset, NotUnicode} \cup {SetTo(v) : v \in Values}

Err == [ok |-> FALSE, val |-> ""]
Ok(v) == [ok |-> TRUE, val |-> v]

\* a lookup that went through a value remembered from the previous call
EnvVarCached(e) ==
    IF calls > 1 THEN prev.res
    ELSE IF e.set /\ e.unicode THEN Ok(e.val) ELSE Err

\* std::env::var(KEY): Err when KEY is absent or its value is not unicode
EnvVar(e) == IF e.set /\ e.unicode THEN Ok(e.val) ELSE Err

\* a match that treats a failed lookup as enabled
EnabledDefaultOn(r) == ~r.ok \/ r.val = TRUE_STR

\* a match that accepts other truthy spellings
EnabledTruthy(r) == r.ok /\ r.val \in {"true", "True", "1"}

\* Ok(v) => if v == "true" { ... }    _ => ()
Enabled(r) == r.ok /\ r.val = TRUE_STR

-----------------------------------------------------------------------------
(* Messages *)

Digit(d) == CASE d = 0 -> "0" [] d = 1 -> "1" [] d = 2 -> "2" [] d = 3 -> "3"
              [] d = 4 -> "4" [] d = 5 -> "5" [] d = 6 -> "6" [] d = 7 -> "7"
              [] d = 8 -> "8" [] d = 9 -> "9"

RECURSIVE Decimal(_)
Decimal(n) == IF n < 10 THEN Digit(n) ELSE Decimal(n \div 10) \o Digit(n % 10)

\* Display of an integer argument
Display(n) == IF n < 0 THEN "-" \o Decimal(0 - n) ELSE Decimal(n)

\* a format! that leaves the placeholders in the text
RECURSIVE FormatVerbatim(_, _)
FormatVerbatim(fmt, args) ==
    IF fmt = <<>> THEN "" ELSE Head(fmt) \o FormatVerbatim(Tail(fmt), args)

\* format!($($arg)+): the format string is a sequence of pieces, a piece
\* "{}" is replaced by the Display of the next argument
RECURSIVE Format(_, _)
Format(fmt, args) ==
    IF fmt = <<>> THEN ""
    ELSE IF Head(fmt) = "{}"
         THEN Display(Head(args)) \o Format(Tail(fmt), Tail(args))
         ELSE Head(fmt) \o Format(Tail(fmt), args)

\* stringify!($cond) for the literal conditions true and false
CondText(cond) == IF cond THEN "true" ELSE "false"

NoArgs == [fmt |-> <<>>, args |-> <<>>]

Messages == {
    [fmt |-> <<"got ", "{}">>, args |-> <<5>>],
    [fmt |-> <<"x is ", "{}", "!">>, args |-> <<-42>>],
    [fmt |-> <<"didn't crash with ", "{}">>, args |-> <<5>>],
    [fmt |-> <<"false assert is panic">>, args |-> <<>>] }

Invocations ==
    {[shape |-> sh, cond |-> c, fmt |-> m.fmt, args |-> m.args] :
        sh \in {1, 2}, c \in BOOLEAN, m \in {NoArgs}}
    \cup
    {[shape |-> 3, cond |-> c, fmt |-> m.fmt, args |-> m.args] :
        c \in BOOLEAN, m \in Messages}

-----------------------------------------------------------------------------
(* The macro's arms *)

\* arms that compute the condition even when the check is disabled
ArmAlwaysCond(shape, r) ==
    IF Enabled(r)
    THEN IF shape = 3 THEN <<"format", "cond", "assert">>
                      ELSE <<"cond", "assert">>
    ELSE <<"cond">>

\* arms chosen by looking KEY up a second time
ArmReread(shape, r) ==
    IF Enabled(EnvVar(env))
    THEN IF shape = 3 THEN <<"format", "cond", "assert">>
                      ELSE <<"cond", "assert">>
    ELSE <<>>

\* the statements the match runs: assert!($cond) in the first two rules,
\* let s = format!(..); assert!($cond, s) in the third, () otherwise.
\* assert! is the evaluation of $cond followed by the panic test.
Arm(shape, r) ==
    IF Enabled(r)
    THEN IF shape = 3 THEN <<"format", "cond", "assert">>
                      ELSE <<"cond", "assert">>
    ELSE <<>>

\* an assert! that panics whatever the condition
AssertFailsAlways(c) == TRUE

\* an assert! that never panics
AssertFailsNever(c) == FALSE

\* assert!(c): panics when c is false
AssertFails(c) == ~c

\* the panic message: s in the third rule, the standard text otherwise
AssertMsg(cl, l) ==
    IF cl.shape = 3 THEN l.s ELSE "assertion failed: " \o CondText(cl.cond)

Fresh == [s |-> "", c |-> TRUE, evals |-> 0, formats |-> 0,
          outcome |-> "none", msg |-> ""]

\* one statement of an arm, run on the call's locals
Exec(step, cl, l) ==
    CASE step = "format" ->
            [l EXCEPT !.s = Format(cl.fmt, cl.args), !.formats = @ + 1]
      [] step = "cond" ->
            [l EXCEPT !.c = cl.cond, !.evals = @ + 1]
      [] step = "assert" ->
            IF AssertFails(l.c)
            THEN [l EXCEPT !.outcome = "panic", !.msg = AssertMsg(cl, l)]
            ELSE l

RECURSIVE Run(_, _, _)
Run(steps, cl, l) ==
    IF steps = <<>> THEN [l EXCEPT !.outcome = "ok"]
    ELSE LET l2 == Exec(Head(steps), cl, l)
         IN  IF l2.outcome = "panic" THEN l2 ELSE Run(Tail(steps), cl, l2)

\* a whole env_assert! call whose lookup sees the entry e
EnvAssert(cl, e) == Run(Arm(cl.shape, EnvVar(e)), cl, Fresh)

-----------------------------------------------------------------------------
(* The test module's programs *)

Tests == {"just_true", "true_with_comma", "true_with_fmt",
          "test_panic_var_true", "assert_when_var_is_not_set"}

Stmt(op, cl) == [op |-> op, cl |-> cl]
Inv(shape, cond, fmt, args) ==
    [shape |-> shape, cond |-> cond, fmt |-> fmt, args |-> args]
NoCall == Inv(1, TRUE, <<>>, <<>>)

Prog(t) ==
    CASE t = "just_true" ->
            <<Stmt("set_var_to_true", NoCall),
              Stmt("env_assert", Inv(1, TRUE, <<>>, <<>>))>>
      [] t = "true_with_comma" ->
            <<Stmt("set_var_to_true", NoCall),
              Stmt("env_assert", Inv(2, TRUE, <<>>, <<>>))>>
      [] t = "true_with_fmt" ->
            <<Stmt("set_var_to_true", NoCall),
              Stmt("env_assert", Inv(3, TRUE, <<"didn't crash with ", "{}">>, <<5>>))>>
      [] t = "test_panic_var_true" ->
            <<Stmt("set_var_to_true", NoCall),
              Stmt("env_assert", Inv(3, FALSE, <<"false assert is panic">>, <<>>))>>
      [] t = "assert_when_var_is_not_set" ->
            <<Stmt("remove_var", NoCall),
              Stmt("assert_is_err", NoCall),
              Stmt("env_assert", Inv(3, TRUE, <<"asserting with true">>, <<>>)),
              Stmt("env_assert", Inv(3, FALSE, <<"asserting with false">>, <<>>))>>

\* #[should_panic(expected = "false assert is panic")] on test_panic_var_true
ShouldPanic(t) == t = "test_panic_var_true"
Expected(t) == "false assert is panic"

\* the harness's verdict on a finished test; the only panic message this
\* thread can produce is the expected text itself, so containment of the
\* expected text is equality here
Passed(t) ==
    IF ShouldPanic(t) THEN tres[t] = "panic" /\ tmsg[t] = Expected(t)
    ELSE tres[t] = "ok"

-----------------------------------------------------------------------------
(* Initial states *)

NoPrev == [res |-> Err, outcome |-> "none"]

InitCall ==
    /\ pc = "idle"
    /\ call = Inv(1, TRUE, <<>>, <<>>)
    /\ res = Err
    /\ todo = <<>>
    /\ loc = Fresh
    /\ reads = 0
    /\ calls = 0
    /\ prev = NoPrev
    /\ envAtRead = Unset
    /\ sawTrue = FALSE
    /\ raced = FALSE

InitTests ==
    /\ tpc = [t \in Tests |-> 1]
    /\ tres = [t \in Tests |-> "running"]
    /\ tmsg = [t \in Tests |-> ""]

Init == env \in Entries /\ InitCall /\ InitTests

InitT == env \in {Unset, SetTo(TRUE_STR)} /\ InitCall /\ InitTests

-----------------------------------------------------------------------------
(* Spec: one call thread and the environment *)

InCall == pc \in {"var", "match", "run"}

\* std::env::set_var(KEY, v) by any thread
SetVar(v) ==
    /\ env' = SetTo(v)
    /\ sawTrue' = (sawTrue \/ (InCall /\ v = TRUE_STR))
    /\ raced' = (raced \/ (InCall /\ env' # env))
    /\ UNCHANGED <<pc, call, res, todo, loc, reads, calls, prev, envAtRead>>
    /\ UNCHANGED testVars

\* std::env::set_var(KEY, <non-unicode bytes>) by any thread
SetVarRaw ==
    /\ env' = NotUnicode
    /\ raced' = (raced \/ (InCall /\ env' # env))
    /\ UNCHANGED <<pc, call, res, todo, loc, reads, calls, prev, envAtRead,
                   sawTrue>>
    /\ UNCHANGED testVars

\* std::env::remove_var(KEY) by any thread
RemoveVar ==
    /\ env' = Unset
    /\ raced' = (raced \/ (InCall /\ env' # env))
    /\ UNCHANGED <<pc, call, res, todo, loc, reads, calls, prev, envAtRead,
                   sawTrue>>
    /\ UNCHANGED testVars

\* the thread reaches an env_assert!(..) in its code
Invoke(cl) ==
    /\ pc = "idle"
    /\ calls < MaxCalls
    /\ pc' = "var"
    /\ call' = cl
    /\ calls' = calls + 1
    /\ loc' = Fresh
    /\ reads' = 0
    /\ res' = Err
    /\ todo' = <<>>
    /\ sawTrue' = (env = SetTo(TRUE_STR))
    /\ raced' = FALSE
    /\ UNCHANGED <<env, prev, envAtRead>>
    /\ UNCHANGED testVars

\* a lookup that takes the entry out of the environment
VarConsume ==
    /\ pc = "var"
    /\ res' = EnvVar(env)
    /\ reads' = reads + 1
    /\ envAtRead' = env
    /\ pc' = "match"
    /\ env' = Unset
    /\ UNCHANGED <<call, todo, loc, calls, prev, sawTrue, raced>>
    /\ UNCHANGED testVars

\* match std::env::var(KEY) { ... : the lookup
Var ==
    /\ pc = "var"
    /\ res' = EnvVar(env)
    /\ reads' = reads + 1
    /\ envAtRead' = env
    /\ pc' = "match"
    /\ UNCHANGED <<env, call, todo, loc, calls, prev, sawTrue, raced>>
    /\ UNCHANGED testVars

\* the match selects its arm
Match ==
    /\ pc = "match"
    /\ todo' = Arm(call.shape, res)
    /\ pc' = "run"
    /\ UNCHANGED <<env, call, res, loc, reads, calls, prev, envAtRead, sawTrue, raced>>
    /\ UNCHANGED testVars

RunStep(step) ==
    /\ loc' = Exec(step, call, loc)
    /\ IF loc'.outcome = "panic"
       THEN pc' = "done" /\ todo' = <<>>
       ELSE pc' = pc /\ todo' = Tail(todo)
    /\ UNCHANGED <<env, call, res, reads, calls, prev, envAtRead, sawTrue, raced>>
    /\ UNCHANGED testVars

\* let s = format!($($arg)+);
FormatStep ==
    /\ pc = "run"
    /\ todo # <<>>
    /\ Head(todo) = "format"
    /\ RunStep("format")

\* the evaluation of $cond inside assert!
CondStep ==
    /\ pc = "run"
    /\ todo # <<>>
    /\ Head(todo) = "cond"
    /\ RunStep("cond")

\* assert!'s test of the condition's value, and its panic
AssertStep ==
    /\ pc = "run"
    /\ todo # <<>>
    /\ Head(todo) = "assert"
    /\ RunStep("assert")

\* the macro's block ends without a panic
Return ==
    /\ pc = "run"
    /\ todo = <<>>
    /\ loc' = [loc EXCEPT !.outcome = "ok"]
    /\ pc' = "done"
    /\ UNCHANGED <<env, call, res, todo, reads, calls, prev, envAtRead, sawTrue, raced>>
    /\ UNCHANGED testVars

\* the thread goes on (after a panic: the harness's next unit of work)
Continue ==
    /\ pc = "done"
    /\ pc' = "idle"
    /\ prev' = [res |-> res, outcome |-> loc.outcome]
    /\ UNCHANGED <<env, call, res, todo, loc, reads, calls, envAtRead, sawTrue, raced>>
    /\ UNCHANGED testVars

Next ==
    \/ \E v \in Values : SetVar(v)
    \/ SetVarRaw
    \/ RemoveVar
    \/ \E cl \in Invocations : Invoke(cl)
    \/ Var
    \/ Match
    \/ FormatStep
    \/ CondStep
    \/ AssertStep
    \/ Return
    \/ Continue

Spec == Init /\ [][Next]_vars

-----------------------------------------------------------------------------
(* SpecTests: the five tests as threads of one process *)

Running(t) == tres[t] = "running" /\ tpc[t] <= Len(Prog(t))
Cur(t) == Prog(t)[tpc[t]]

Advance(t) ==
    /\ tpc' = [tpc EXCEPT ![t] = @ + 1]
    /\ tres' = [tres EXCEPT ![t] = IF tpc[t] = Len(Prog(t)) THEN "ok" ELSE @]
    /\ tmsg' = tmsg

Panic(t, m) ==
    /\ tpc' = tpc
    /\ tres' = [tres EXCEPT ![t] = "panic"]
    /\ tmsg' = [tmsg EXCEPT ![t] = m]

\* fn set_var_to_true()
set_var_to_true(t) ==
    /\ Running(t)
    /\ Cur(t).op = "set_var_to_true"
    /\ env' = SetTo(TRUE_STR)
    /\ Advance(t)
    /\ UNCHANGED callVars

\* fn remove_var()
remove_var(t) ==
    /\ Running(t)
    /\ Cur(t).op = "remove_var"
    /\ env' = Unset
    /\ Advance(t)
    /\ UNCHANGED callVars

\* assert!(std::env::var(KEY).is_err());
assert_is_err(t) ==
    /\ Running(t)
    /\ Cur(t).op = "assert_is_err"
    /\ IF AssertFails(~EnvVar(env).ok)
       THEN Panic(t, "assertion failed: std::env::var(KEY).is_err()")
       ELSE Advance(t)
    /\ UNCHANGED env
    /\ UNCHANGED callVars

\* super::env_assert!(..) in a test: the lookup is the call's only access to
\* the shared environment, the rest of the expansion is local to the thread
env_assert(t) ==
    /\ Running(t)
    /\ Cur(t).op = "env_assert"
    /\ LET l == EnvAssert(Cur(t).cl, env)
       IN  IF l.outcome = "panic" THEN Panic(t, l.msg) ELSE Advance(t)
    /\ UNCHANGED env
    /\ UNCHANGED callVars

NextT ==
    \/ \E t \in Tests : set_var_to_true(t)
    \/ \E t \in Tests : remove_var(t)
    \/ \E t \in Tests : assert_is_err(t)
    \/ \E t \in Tests : env_assert(t)

SpecTests == InitT /\ [][NextT]_vars

-----------------------------------------------------------------------------
(* Properties *)

Done == pc = "done"
LookupFailed == ~envAtRead.set \/ ~envAtRead.unicode
ReadTrue == envAtRead = SetTo(TRUE_STR)
ReadOther == envAtRead.set /\ envAtRead.unicode /\ envAtRead.val # TRUE_STR

\* C1: a call whose lookup of RUST_ENV_ASSERT fails (variable unset, or its
\* value not readable as unicode) returns normally, in every call shape and
\* for either value of the condition.
C1_LookupFailsReturns == (Done /\ LookupFailed) => loc.outcome = "ok"

C1_Witness ==
    /\ Done /\ envAtRead = Unset /\ call.shape = 3 /\ ~call.cond
    /\ loc.outcome = "ok"

\* C2: with the variable set to a string other than "true", a call whose
\* condition is false returns normally, leaving the call's locals as the
\* unset case leaves them.
C2_OtherValueReturns ==
    (Done /\ ReadOther /\ ~call.cond) =>
        (loc.outcome = "ok" /\ loc = EnvAssert(call, Unset))

C2_Witness ==
    /\ Done /\ envAtRead = SetTo("True") /\ ~call.cond /\ loc.outcome = "ok"

\* C3: with the variable equal to "true", a call whose condition is false
\* panics in all three shapes; in the message shape the panic message is the
\* static message, or the format string with its arguments substituted
\* ("got {}" with 5 gives "got 5").
C3_EnabledFalsePanics ==
    (Done /\ ReadTrue /\ ~call.cond) =>
        /\ loc.outcome = "panic"
        /\ (call.shape = 3 /\ call.args = <<>> /\ Len(call.fmt) = 1)
              => loc.msg = call.fmt[1]
        /\ (call.shape = 3 /\ call.fmt = <<"got ", "{}">> /\ call.args = <<5>>)
              => loc.msg = "got 5"
        /\ (call.shape = 3 /\ call.fmt = <<"x is ", "{}", "!">>
                /\ call.args = <<-42>>)
              => loc.msg = "x is -42!"

C3_Witness ==
    /\ Done /\ ReadTrue /\ ~call.cond /\ call.shape = 3
    /\ loc.outcome = "panic" /\ loc.msg = "got 5"

\* C4: with the variable equal to "true", a call whose condition is true
\* returns normally in all three shapes, whatever the message arguments.
C4_EnabledTrueReturns == (Done /\ ReadTrue /\ call.cond) => loc.outcome = "ok"

C4_Witness ==
    /\ Done /\ ReadTrue /\ call.cond /\ call.shape = 3 /\ call.args # <<>>
    /\ loc.outcome = "ok"

\* C5 as stated: every call evaluates its condition exactly once, whatever
\* the state of the variable.
C5_CondEvaluatedOnEveryCall == Done => loc.evals = 1

\* C5 amended: a call evaluates its condition exactly once when its lookup
\* returns "true", and not at all when the lookup fails or returns another
\* value.
C5_CondEvaluatedIffEnabled ==
    Done => loc.evals = (IF ReadTrue THEN 1 ELSE 0)

C5_Witness ==
    /\ Done /\ ~ReadTrue /\ ~call.cond /\ loc.evals = 0 /\ loc.outcome = "ok"

\* C6: in the message shape the message is formatted only when the variable
\* equals "true" and the condition is false.
C6_FormatOnlyWhenFailing ==
    loc.formats > 0 => (ReadTrue /\ ~call.cond)

\* C7: the decision is taken anew on every call: a call panics iff the value
\* its own lookup found equals "true" and its condition is false, whatever
\* the previous call read and however it ended.
C7_DecidedPerCall ==
    Done => (loc.outcome = "panic" <=> (ReadTrue /\ ~call.cond))

C7_Witness ==
    /\ Done /\ calls >= 2
    /\ prev.res = Ok(TRUE_STR) /\ prev.outcome = "panic"
    /\ envAtRead = Unset /\ ~call.cond /\ loc.outcome = "ok"

CallStep == <<pc, todo, loc, res, reads, calls>>' # <<pc, todo, loc, res, reads, calls>>

\* C8: no step of an env_assert! call changes the environment entry, and a
\* disabled call ends with the same locals whether it is the first call or a
\* later one.
C8_EnvironmentUntouched ==
    /\ [][CallStep => env' = env]_vars
    /\ []((Done /\ ~ReadTrue) => loc = [Fresh EXCEPT !.outcome = "ok"])

C8_Witness ==
    /\ Done /\ calls = MaxCalls /\ ~ReadTrue /\ ~raced
    /\ prev.outcome = "ok" /\ prev.res # Ok(TRUE_STR)
    /\ env = envAtRead

\* C9: a call looks the variable up once and its outcome is the one for the
\* value that lookup returned, also when the variable is changed while the
\* call runs; a call during which the variable never was "true" cannot
\* panic.
C9_SingleRead ==
    Done =>
        /\ reads = 1
        /\ loc.outcome = "panic" <=> (res = Ok(TRUE_STR) /\ ~call.cond)
        /\ loc.outcome = "panic" => sawTrue

C9_Witness ==
    /\ Done /\ raced /\ res = Ok(TRUE_STR) /\ env = Unset
    /\ loc.outcome = "panic"

\* C10: every test that has finished has the outcome its attributes expect,
\* under every interleaving of the five tests.
C10_TestsPass == \A t \in Tests : tres[t] # "running" => Passed(t)

====
